---- MODULE Spec2Model ----
(***************************************************************************)
(* Document upload and processing-status tracking of the document          *)
(* intelligence frontend.                                                   *)
(*                                                                          *)
(* Two upload components exist in the repository and both are modelled;    *)
(* `variant` says which one is mounted:                                     *)
(*   "real"  src/src/pages/DocumentUpload/DocumentUpload.tsx  (WebSocket)   *)
(*   "mock"  src/unnamed/part_002, lines 1-163      (useMockSocket timers)  *)
(*                                                                          *)
(* React state setters are modelled as taking effect at once.  The          *)
(* WebSocket listener of the real component is registered by a passive      *)
(* effect whose dependencies are [processingStatus, file, navigate]; the    *)
(* handler compares against the processingStatus it closed over when the    *)
(* effect ran (lsStatus).  After a state change made outside a discrete     *)
(* user event (a socket message, a promise continuation, the dropzone       *)
(* callback) the effect re-runs in a later task (RunEffect); a button click *)
(* flushes it before the next task.                                         *)
(*                                                                          *)
(* Time is counted in units of TickMs milliseconds; timers carry the number *)
(* of units left before they are due.                                       *)
(*                                                                          *)
(* The Upload Endpoint mints a fresh identifier per accepted upload; the    *)
(* socket may deliver a message for any identifier.  When the component     *)
(* unmounts its state is discarded (reset here to the initial values);      *)
(* pending timers and the request in flight outlive it.                     *)
(*                                                                          *)
(* The retry options of the application's React Query client (src/Apps.tsx) *)
(* are modelled apart from the upload flow: RetrySpec follows one request   *)
(* that keeps failing.  FairSpec is Spec with the HTTP transport assumed to *)
(* answer or fail every request.                                            *)
(***************************************************************************)
EXTENDS Integers, Sequences, FiniteSets, Bags, TLC

\* ---------------------------------------------------------------- bounds
\* document identifiers the Upload Endpoint can mint
MaxDocs == 2
\* distinct files the user can pick
MaxFiles == 2
\* accepted drops, upload starts, applied events and socket errors in a run
MaxInputs == 4
\* size of the request body, in progress units
MaxTotal == 3

\* failures of one React Query request that are followed
MaxFailures == 5

\* ------------------------------------------------------ program constants
\* retry: failureCount < 3 (queries), failureCount < 2 (mutations)
QueryRetryLimit == 3
MutationRetryLimit == 2
\* error?.response?.status >= 400 && error?.response?.status < 500
ClientErrorFrom == 400
ClientErrorBelow == 500
NavDelayMs == 1000
MockDelayFactor == 50
\* the time unit: the shortest timer, simulateMessage(document_id, 'processing', 10)
TickMs == 10 * MockDelayFactor

DocIds == 1..MaxDocs
FileNames == 1..MaxFiles
NoFile == 0
\* Math.round of a non-number; the mock component can store it as progress
NaN == 0 - 1

Statuses == {"processing", "analyzing", "enhancing", "completed", "failed"}
EventProgress == {10, 50, 100}
MimeTypes == {"application/pdf", "text/plain"}

\* useState<ProcessingStatus | null>(null): the absent status
NullStatus == [document_id |-> 0, status |-> "absent", progress |-> 0]

\* interface ProcessingStatus
ProcessingStatus == [document_id : DocIds, status : Statuses, progress : EventProgress]

\* setProcessingStatus({ document_id, status: 'processing', progress: 0 })
SeedStatus(d) == [document_id |-> d, status |-> "processing", progress |-> 0]

\* the four simulateMessage calls of the mock handleUpload, in call order
MockScript == << [status |-> "processing", progress |-> 10],
                 [status |-> "analyzing", progress |-> 50],
                 [status |-> "enhancing", progress |-> 90],
                 [status |-> "completed", progress |-> 100] >>

\* setTimeout(..., progress * 50), in ticks
MockDelay(progress) == (progress * MockDelayFactor) \div TickMs

\* setTimeout(() => navigate(...), 1000), in ticks
NavDelay == NavDelayMs \div TickMs

\* Math.round(loaded * 100 / total) for total > 0
PercentCompleted(loaded, total) == (2 * loaded * 100 + total) \div (2 * total)

VARIABLES
    variant,            \* which of the two components is mounted
    mounted,            \* the component instance is alive
    location,           \* router location: 0 = /upload, d = /documents/d, -1 = elsewhere
    file,               \* useState file
    uploadProgress,     \* useState uploadProgress
    isUploading,        \* useState isUploading
    processingStatus,   \* useState processingStatus
    lsStatus,           \* processingStatus closed over by ws.onmessage
    effectPending,      \* effect dependencies changed, effect not yet re-run
    ws,                 \* state of the current WebSocket
    wsStale,            \* sockets of earlier effect runs that were not closed
    inflight,           \* axios.post requests awaiting their response (files)
    minted,             \* document identifiers minted by the Upload Endpoint
    timers,             \* pending setTimeout callbacks (bag)
    navScheduled,       \* navigations scheduled so far, counted by target
    nInputs,            \* gestures and events acted on so far
    lastOp,             \* last handler that ran, with its input
    rq                  \* a React Query request: its kind, failures, last error

uploadVars == << variant, mounted, location, file, uploadProgress, isUploading,
                 processingStatus, lsStatus, effectPending, ws, wsStale,
                 inflight, minted, timers, navScheduled, nInputs, lastOp >>

vars == << uploadVars, rq >>

\* lastOp: the handler that ran last, the message it was given (marked when
\* the handler dropped it; for a drop, what the gesture offered), the file,
\* identifier or total it was given, and the notification (toast) it fired,
\* "none" if it fired none
Op(name, msg, num, toast) == [op |-> name, msg |-> msg, num |-> num, toast |-> toast]

\* a navigation addressed to a different document
NavTimerOtherTarget(d) == [kind |-> "nav", document_id |-> (d % MaxDocs) + 1,
                           status |-> "absent", progress |-> 0, due |-> NavDelay]

\* navigate(`/documents/${message.document_id}`) behind setTimeout(..., 1000)
NavTimer(d) == [kind |-> "nav", document_id |-> d, status |-> "absent",
                progress |-> 0, due |-> NavDelay]

\* useMockSocket.simulateMessage: onMessage(...) behind setTimeout(..., progress * 50)
MsgTimer(d, m) == [kind |-> "msg", document_id |-> d, status |-> m.status,
                   progress |-> m.progress, due |-> MockDelay(m.progress)]

\* JSON.parse(event.data) of what simulateMessage stringified
TimerMessage(t) == [document_id |-> t.document_id, status |-> t.status,
                    progress |-> t.progress]

\* an inbound message that the handler dropped
Ignored(m) == [document_id |-> m.document_id, status |-> "ignored", progress |-> 0]

\* ws.onmessage guard: processingStatus && message.document_id === processingStatus.document_id
\* evaluated on the processingStatus the listener closed over
MessageMatches(ls, m) == ls # NullStatus /\ m.document_id = ls.document_id

\* a navigation branch that tests the progress instead of the status
SchedulesNavigationOnFullProgress(m) == m.progress = 100

\* the navigation branch taken for every terminal status
SchedulesNavigationOnTerminal(m) == m.status \in {"completed", "failed"}

\* if (message.status === 'completed') { ...; setTimeout(() => navigate(...), 1000) }
SchedulesNavigation(m) == m.status = "completed"

\* else if (message.status === 'failed') { toast.error(...) }
ReportsFailure(m) == m.status = "failed"

TimersAfterMessage(tm, m) ==
    IF SchedulesNavigation(m) THEN tm (+) SetToBag({NavTimer(m.document_id)}) ELSE tm

NavScheduledAfterMessage(ns, m) ==
    IF SchedulesNavigation(m) THEN [ns EXCEPT ![m.document_id] = @ + 1] ELSE ns

\* toast.success(`Processing complete ...`) / toast.error(`Processing failed ...`)
ToastAfterMessage(m) ==
    IF SchedulesNavigation(m) THEN "procOk"
    ELSE IF ReportsFailure(m) THEN "procFail"
    ELSE "none"

\* a button that does not look at isUploading
ButtonDisabledIgnoringUpload(f, up, ps) ==
    \/ f = NoFile
    \/ (ps # NullStatus /\ ps.status # "completed" /\ ps.status # "failed")

\* a button that treats only completed as terminal
ButtonDisabledUnlessCompleted(f, up, ps) ==
    \/ f = NoFile
    \/ up
    \/ (ps # NullStatus /\ ps.status # "completed")

\* Button disabled={...} of the real component
ButtonDisabledReal(f, up, ps) ==
    \/ f = NoFile
    \/ up
    \/ (ps # NullStatus /\ ps.status # "completed" /\ ps.status # "failed")

\* Button disabled={...} of the mock component
ButtonDisabledMock(f, up, ps) ==
    \/ f = NoFile
    \/ up
    \/ (ps # NullStatus /\ ps.status # "completed")

ButtonDisabled ==
    IF variant = "real" THEN ButtonDisabledReal(file, isUploading, processingStatus)
    ELSE ButtonDisabledMock(file, isUploading, processingStatus)

\* a dropzone without the accept filter
AcceptedFilesOfAnyType(cands) == IF Len(cands) > 1 THEN << >> ELSE cands

\* useDropzone({ accept: { 'application/pdf': ['.pdf'] }, multiple: false }):
\* the files handed to onDrop as acceptedFiles
AcceptedFiles(cands) ==
    LET byType == SelectSeq(cands, LAMBDA c : c.type = "application/pdf")
    IN  IF Len(byType) > 1 THEN << >> ELSE byType

Candidates == [name : FileNames, type : MimeTypes]

\* drop gestures: one candidate, or two candidates at once
DropInputs == {<< c >> : c \in Candidates}
              \cup {<< p[1], p[2] >> :
                      p \in {q \in Candidates \X Candidates : q[1].name < q[2].name}}

\* no candidate of the gesture has the allow-listed type
NoneAllowed(cands) == \A i \in 1..Len(cands) : cands[i].type # "application/pdf"

\* what the gesture offered the dropzone: nothing of the allow-listed type,
\* or at least one candidate of it
Gesture(cands) ==
    [document_id |-> 0,
     status |-> IF NoneAllowed(cands) THEN "none-allowed" ELSE "some-allowed",
     progress |-> 0]

\* an onDrop that keeps the tracked status
StatusKeptAfterDrop(ps) == ps

\* onDrop: setProcessingStatus(null)
StatusAfterDrop(ps) == NullStatus

\* onDrop: setUploadProgress(0)
ProgressAfterDrop(up) == 0

\* a handleUpload without the early return
HandleUploadNeverReturnsEarly(f) == FALSE

\* handleUpload: if (!file) return;
HandleUploadReturnsEarly(f) == f = NoFile

\* a handleUpload that drops the selection once the transfer starts
FileClearedAfterUploadStart(f) == NoFile

\* handleUpload never calls setFile: the selection outlives the start
FileAfterUploadStart(f) == f

\* handleUpload, try branch: setProcessingStatus({ document_id, ... }) (real);
\* the mock component sets no status there
StatusAfterUploadSuccess(v, ps, d) == IF v = "real" THEN SeedStatus(d) ELSE ps

\* a catch branch that records the failure as a tracked status
StatusFailedAfterUploadFailure(ps) ==
    [document_id |-> 0, status |-> "failed", progress |-> 0]

\* handleUpload, catch branch: no state is set besides the finally block
StatusAfterUploadFailure(ps) == ps

\* a handleUpload without the finally block
UploadingKeptAfterOutcome(up) == up

\* handleUpload, finally: setIsUploading(false)
UploadingAfterOutcome(up) == FALSE

\* an onUploadProgress that never lets the displayed value go down
ProgressNeverDecreasing(v, up, loaded, total) ==
    IF total # 0 /\ PercentCompleted(loaded, total) > up
    THEN PercentCompleted(loaded, total)
    ELSE up

\* onUploadProgress
ProgressAfterEvent(v, up, loaded, total) ==
    IF v = "real"
    THEN IF total # 0 THEN PercentCompleted(loaded, total) ELSE up
    ELSE IF total # 0 THEN PercentCompleted(loaded, total) ELSE NaN

\* an effect without the cleanup: the previous socket is left as it is
OpenWithoutCleanup(stale, cur) ==
    stale + (IF cur \in {"connecting", "open"} THEN 1 ELSE 0)

\* return () => { ws.close(); }: the cleanup closes the socket of the effect
\* run it belongs to, so no earlier socket stays open
OpenAfterCleanup(stale, cur) == 0

\* connections on which the server can deliver events
OpenConnections == wsStale + (IF ws = "open" THEN 1 ELSE 0)

DueNow == {t \in BagToSet(timers) : t.due = 0}

Decremented(tm) ==
    [t \in {[x EXCEPT !.due = @ - 1] : x \in BagToSet(tm)} |->
        tm[[t EXCEPT !.due = @ + 1]]]

\* error?.response?.status of an error without a response (undefined)
NoResponse == 0

\* HTTP statuses an error can carry
ErrorStatuses == {NoResponse, 399, 400, 404, 499, 500, 503}

\* a queries.retry without the bound on failureCount
QueryRetryUnbounded(failureCount, status) ==
    ~(status >= ClientErrorFrom /\ status < ClientErrorBelow)

\* defaultOptions.queries.retry
QueryRetry(failureCount, status) ==
    IF status >= ClientErrorFrom /\ status < ClientErrorBelow
    THEN FALSE
    ELSE failureCount < QueryRetryLimit

\* defaultOptions.mutations.retry
MutationRetry(failureCount, status) ==
    IF status >= ClientErrorFrom /\ status < ClientErrorBelow
    THEN FALSE
    ELSE failureCount < MutationRetryLimit

\* no request is being followed
NoRequest == [kind |-> "none", failureCount |-> 0, status |-> NoResponse,
              retry |-> "undecided"]

\* a failed request: the failures before this one, the error's status, and
\* what the retry option answered
Requests == [kind : {"query", "mutation"}, failureCount : 0..MaxFailures,
             status : ErrorStatuses, retry : {"undecided", "retry", "stop"}]

Init ==
    /\ variant \in {"real", "mock"}
    /\ mounted = TRUE
    /\ location = 0
    /\ file = NoFile
    /\ uploadProgress = 0
    /\ isUploading = FALSE
    /\ processingStatus = NullStatus
    /\ lsStatus = NullStatus
    /\ effectPending = FALSE
    /\ ws = IF variant = "real" THEN "connecting" ELSE "none"
    /\ wsStale = 0
    /\ inflight = << >>
    /\ minted = 0
    /\ timers = EmptyBag
    /\ navScheduled = [d \in DocIds |-> 0]
    /\ nInputs = 0
    /\ lastOp = Op("init", NullStatus, 0, "none")
    /\ rq = NoRequest

\* the WebSocket handshake completes
WsOpen ==
    /\ ws = "connecting"
    /\ ws' = "open"
    /\ lastOp' = Op("WsOpen", NullStatus, 0, "none")
    /\ UNCHANGED << rq, wsStale, variant, mounted, location, file, uploadProgress,
                    isUploading, processingStatus, lsStatus, effectPending,
                    inflight, minted, timers, navScheduled, nInputs >>

\* useEffect(..., [processingStatus, file, navigate]) re-runs: the cleanup
\* closes the previous socket, a new socket is created and its onmessage
\* closes over the current processingStatus
RunEffect ==
    /\ variant = "real"
    /\ mounted
    /\ effectPending
    /\ effectPending' = FALSE
    /\ lsStatus' = processingStatus
    /\ ws' = "connecting"
    /\ wsStale' = OpenAfterCleanup(wsStale, ws)
    /\ lastOp' = Op("RunEffect", NullStatus, 0, "none")
    /\ UNCHANGED << rq, variant, mounted, location, file, uploadProgress,
                    isUploading, processingStatus, inflight, minted, timers,
                    navScheduled, nInputs >>

\* ws.onmessage
OnMessage(m) ==
    /\ variant = "real"
    /\ ws = "open"
    /\ IF MessageMatches(lsStatus, m)
       THEN /\ nInputs < MaxInputs
            /\ nInputs' = nInputs + 1
            /\ processingStatus' = m
            /\ effectPending' = TRUE
            /\ timers' = TimersAfterMessage(timers, m)
            /\ navScheduled' = NavScheduledAfterMessage(navScheduled, m)
            /\ lastOp' = Op("OnMessage", m, 0, ToastAfterMessage(m))
       ELSE /\ lastOp' = Op("OnMessage", Ignored(m), 0, "none")
            /\ UNCHANGED << processingStatus, effectPending, timers,
                            navScheduled, nInputs >>
    /\ UNCHANGED << rq, wsStale, variant, mounted, location, file, uploadProgress,
                    isUploading, lsStatus, ws, inflight, minted >>

\* a ws.onerror that opens a new connection
OnErrorReconnecting ==
    /\ variant = "real"
    /\ ws \in {"connecting", "open"}
    /\ nInputs < MaxInputs
    /\ nInputs' = nInputs + 1
    /\ ws' = "connecting"
    /\ lastOp' = Op("OnError", NullStatus, 0, "wsError")
    /\ UNCHANGED << rq, wsStale, variant, mounted, location, file, uploadProgress,
                    isUploading, processingStatus, lsStatus, effectPending,
                    inflight, minted, timers, navScheduled >>

\* ws.onerror
OnError ==
    /\ variant = "real"
    /\ ws \in {"connecting", "open"}
    /\ nInputs < MaxInputs
    /\ nInputs' = nInputs + 1
    /\ ws' = "closed"
    /\ lastOp' = Op("OnError", NullStatus, 0, "wsError")
    /\ UNCHANGED << rq, wsStale, variant, mounted, location, file, uploadProgress,
                    isUploading, processingStatus, lsStatus, effectPending,
                    inflight, minted, timers, navScheduled >>

\* onDrop, called by the dropzone with the files it accepted
OnDrop(cands) ==
    /\ mounted
    /\ LET acceptedFiles == AcceptedFiles(cands)
       IN  IF Len(acceptedFiles) > 0
           THEN /\ lastOp' = Op("OnDrop", Gesture(cands), acceptedFiles[1].name, "none")
                /\ nInputs < MaxInputs
                /\ nInputs' = nInputs + 1
                /\ file' = acceptedFiles[1].name
                /\ processingStatus' = StatusAfterDrop(processingStatus)
                /\ uploadProgress' = ProgressAfterDrop(uploadProgress)
                /\ effectPending' = (variant = "real")
           ELSE /\ lastOp' = Op("OnDrop", Gesture(cands), NoFile, "none")
                /\ UNCHANGED << file, processingStatus, uploadProgress,
                                effectPending, nInputs >>
    /\ UNCHANGED << rq, wsStale, variant, mounted, location, isUploading, lsStatus, ws,
                    inflight, minted, timers, navScheduled >>

\* handleUpload up to the await of axios.post.  It runs from a click on the
\* button, which is possible only while the button is enabled; with no file
\* selected the button is disabled and the handler is called directly.
HandleUpload ==
    /\ mounted
    /\ file = NoFile \/ ~ButtonDisabled
    /\ lastOp' = Op("HandleUpload", NullStatus, file, "none")
    /\ IF HandleUploadReturnsEarly(file)
       THEN UNCHANGED << file, isUploading, uploadProgress, processingStatus,
                         lsStatus, effectPending, ws, wsStale, inflight,
                         nInputs >>
       ELSE /\ nInputs < MaxInputs
            /\ nInputs' = nInputs + 1
            /\ isUploading' = TRUE
            /\ inflight' = Append(inflight, file)
            /\ file' = FileAfterUploadStart(file)
            /\ IF variant = "real"
               THEN /\ uploadProgress' = 0
                    /\ processingStatus' = NullStatus
                    /\ lsStatus' = NullStatus
                    /\ effectPending' = FALSE
                    /\ ws' = IF effectPending \/ processingStatus # NullStatus
                             THEN "connecting" ELSE ws
                    /\ wsStale' = IF effectPending \/ processingStatus # NullStatus
                                  THEN OpenAfterCleanup(wsStale, ws) ELSE wsStale
               ELSE UNCHANGED << uploadProgress, processingStatus, lsStatus,
                                 effectPending, ws, wsStale >>
    /\ UNCHANGED << rq, variant, mounted, location, minted, timers, navScheduled >>

\* axios onUploadProgress callback
OnUploadProgress(loaded, total) ==
    /\ inflight # << >>
    /\ mounted
    /\ uploadProgress' = ProgressAfterEvent(variant, uploadProgress, loaded, total)
    /\ lastOp' = Op("OnUploadProgress", NullStatus, total, "none")
    /\ UNCHANGED << rq, wsStale, variant, mounted, location, file, isUploading,
                    processingStatus, lsStatus, effectPending, ws, inflight,
                    minted, timers, navScheduled, nInputs >>

\* handleUpload after the await, try branch and finally
UploadSuccess ==
    /\ inflight # << >>
    /\ minted < MaxDocs
    /\ LET d == minted + 1
       IN  /\ minted' = d
           /\ lastOp' = Op("UploadSuccess", NullStatus, d, "uploadOk")
           /\ timers' = IF variant = "mock"
                        THEN timers (+) SetToBag({MsgTimer(d, MockScript[i]) :
                                                    i \in 1..Len(MockScript)})
                        ELSE timers
           /\ IF mounted
              THEN /\ processingStatus' =
                        StatusAfterUploadSuccess(variant, processingStatus, d)
                   /\ isUploading' = UploadingAfterOutcome(isUploading)
                   /\ effectPending' = (variant = "real")
              ELSE UNCHANGED << processingStatus, isUploading, effectPending >>
    /\ inflight' = Tail(inflight)
    /\ UNCHANGED << rq, wsStale, variant, mounted, location, file, uploadProgress,
                    lsStatus, ws, navScheduled, nInputs >>

\* handleUpload after the await, catch branch and finally
UploadFailure ==
    /\ inflight # << >>
    /\ lastOp' = Op("UploadFailure", NullStatus, 0, "uploadFail")
    /\ IF mounted
       THEN /\ processingStatus' = StatusAfterUploadFailure(processingStatus)
            /\ isUploading' = UploadingAfterOutcome(isUploading)
       ELSE UNCHANGED << processingStatus, isUploading >>
    /\ inflight' = Tail(inflight)
    /\ UNCHANGED << rq, wsStale, variant, mounted, location, file, uploadProgress,
                    lsStatus, effectPending, ws, minted, timers, navScheduled,
                    nInputs >>

\* an unmount whose effect cleanup leaves the socket as it is
DiscardedKeepingSocket ==
    /\ mounted' = FALSE
    /\ file' = NoFile
    /\ uploadProgress' = 0
    /\ isUploading' = FALSE
    /\ processingStatus' = NullStatus
    /\ lsStatus' = lsStatus
    /\ effectPending' = FALSE
    /\ ws' = ws
    /\ wsStale' = wsStale

\* the component instance goes away: the effect cleanup closes the socket and
\* the component state is discarded
Discarded ==
    /\ mounted' = FALSE
    /\ file' = NoFile
    /\ uploadProgress' = 0
    /\ isUploading' = FALSE
    /\ processingStatus' = NullStatus
    /\ lsStatus' = NullStatus
    /\ effectPending' = FALSE
    /\ ws' = IF variant = "real" THEN "closed" ELSE ws
    /\ wsStale' = OpenAfterCleanup(wsStale, ws)

\* the user leaves the upload view
Unmount ==
    /\ mounted
    /\ Discarded
    /\ location' = 0 - 1
    /\ lastOp' = Op("Unmount", NullStatus, 0, "none")
    /\ UNCHANGED << rq, variant, inflight, minted, timers, navScheduled, nInputs >>

\* setTimeout(() => navigate(`/documents/${message.document_id}`), 1000) fires
FireNavigate(t) ==
    /\ t \in DueNow
    /\ t.kind = "nav"
    /\ timers' = timers (-) SetToBag({t})
    /\ location' = t.document_id
    /\ lastOp' = Op("FireNavigate", NullStatus, t.document_id, "none")
    /\ IF mounted
       THEN Discarded
       ELSE UNCHANGED << mounted, file, uploadProgress, isUploading,
                         processingStatus, lsStatus, effectPending, ws,
                         wsStale >>
    /\ UNCHANGED << rq, variant, inflight, minted, navScheduled, nInputs >>

\* a simulateMessage timer fires: handleProcessingMessage of the mock component
HandleProcessingMessage(t) ==
    /\ t \in DueNow
    /\ t.kind = "msg"
    /\ LET message == TimerMessage(t)
       IN  /\ processingStatus' = IF mounted THEN message ELSE processingStatus
           /\ timers' = TimersAfterMessage(timers (-) SetToBag({t}), message)
           /\ navScheduled' = NavScheduledAfterMessage(navScheduled, message)
    /\ lastOp' = Op("HandleProcessingMessage", TimerMessage(t), 0,
                  ToastAfterMessage(TimerMessage(t)))
    /\ UNCHANGED << rq, wsStale, variant, mounted, location, file, uploadProgress,
                    isUploading, lsStatus, effectPending, ws, inflight,
                    minted, nInputs >>

\* TickMs milliseconds pass; no timer is overdue
Tick ==
    /\ timers # EmptyBag
    /\ DueNow = {}
    /\ timers' = Decremented(timers)
    /\ lastOp' = Op("Tick", NullStatus, 0, "none")
    /\ UNCHANGED << rq, wsStale, variant, mounted, location, file, uploadProgress,
                    isUploading, processingStatus, lsStatus, effectPending,
                    ws, inflight, minted, navScheduled, nInputs >>

Next ==
    \/ WsOpen
    \/ RunEffect
    \/ \E m \in ProcessingStatus : OnMessage(m)
    \/ OnError
    \/ \E cands \in DropInputs : OnDrop(cands)
    \/ HandleUpload
    \/ \E total \in {0, MaxTotal} : \E loaded \in 0..MaxTotal : OnUploadProgress(loaded, total)
    \/ UploadSuccess
    \/ UploadFailure
    \/ Unmount
    \/ \E t \in DueNow : FireNavigate(t)
    \/ \E t \in DueNow : HandleProcessingMessage(t)
    \/ Tick

Spec == Init /\ [][Next]_vars

TypeOK ==
    /\ variant \in {"real", "mock"}
    /\ mounted \in BOOLEAN
    /\ location \in {0 - 1, 0} \cup DocIds
    /\ file \in {NoFile} \cup FileNames
    /\ uploadProgress \in {NaN} \cup 0..100
    /\ isUploading \in BOOLEAN
    /\ processingStatus = NullStatus \/ processingStatus.document_id \in DocIds
    /\ ws \in {"none", "connecting", "open", "closed"}
    /\ wsStale \in Nat
    /\ minted \in 0..MaxDocs
    /\ IsABag(timers)
    /\ rq = NoRequest \/ rq \in Requests

\* the HTTP transport answers or fails every request it was handed
FairSpec == Spec /\ WF_vars(UploadSuccess \/ UploadFailure)

\* ---------------------------------------------------- React Query retries
\* a request of either kind has just failed, after any number of failures,
\* with any error
RetryInit ==
    /\ variant = "real"
    /\ mounted = TRUE
    /\ location = 0
    /\ file = NoFile
    /\ uploadProgress = 0
    /\ isUploading = FALSE
    /\ processingStatus = NullStatus
    /\ lsStatus = NullStatus
    /\ effectPending = FALSE
    /\ ws = "connecting"
    /\ wsStale = 0
    /\ inflight = << >>
    /\ minted = 0
    /\ timers = EmptyBag
    /\ navScheduled = [d \in DocIds |-> 0]
    /\ nInputs = 0
    /\ lastOp = Op("init", NullStatus, 0, "none")
    /\ rq \in [kind : {"query", "mutation"}, failureCount : 0..MaxFailures,
                status : ErrorStatuses, retry : {"undecided"}]

\* the library asks the retry option whether to run the request again
AskRetry ==
    /\ rq.retry = "undecided"
    /\ rq' = [rq EXCEPT !.retry =
                 IF (IF rq.kind = "query"
                     THEN QueryRetry(rq.failureCount, rq.status)
                     ELSE MutationRetry(rq.failureCount, rq.status))
                 THEN "retry" ELSE "stop"]
    /\ UNCHANGED uploadVars

\* the retried request fails again
RetryFails(status) ==
    /\ rq.retry = "retry"
    /\ rq.failureCount < MaxFailures
    /\ rq' = [rq EXCEPT !.failureCount = @ + 1, !.status = status,
                        !.retry = "undecided"]
    /\ UNCHANGED uploadVars

RetryNext ==
    \/ AskRetry
    \/ \E status \in ErrorStatuses : RetryFails(status)

RetrySpec == RetryInit /\ [][RetryNext]_vars

\* ------------------------------------------------------------- properties

Terminal(ps) == ps.status \in {"completed", "failed"}

NonTerminal(ps) == ps.status \in {"processing", "analyzing", "enhancing"}

\* the upload button can be clicked
StartUploadEnabled == mounted /\ ~ButtonDisabled

\* C1: an inbound event whose document_id differs from the currently tracked
\* identifier, or that arrives while nothing is tracked, has no effect: the
\* tracked status is unchanged, no notification fires and no navigation is
\* scheduled.
C1_ForeignEventHasNoEffect ==
    [][(/\ lastOp'.op = "OnMessage"
        /\ \/ processingStatus = NullStatus
           \/ lastOp'.msg.document_id # processingStatus.document_id)
        => /\ processingStatus' = processingStatus
           /\ lastOp'.toast = "none"
           /\ timers' = timers
           /\ navScheduled' = navScheduled]_vars

\* C2: at most one navigation is ever scheduled per document identifier, and
\* once a completed event for an identifier has been applied exactly one is;
\* a replayed completed event schedules no second navigation.
C2_NavigationOncePerIdentifier ==
    /\ \A d \in DocIds : navScheduled[d] <= 1
    /\ (lastOp.op \in {"OnMessage", "HandleProcessingMessage"}
        /\ lastOp.toast = "procOk")
       => navScheduled[lastOp.msg.document_id] = 1

\* C3: applying a completed event schedules exactly one navigation, due after
\* 1000 ms, whose target is the identifier carried by the event, which is the
\* tracked identifier; no other timer is touched.
C3_CompletedNavigatesToEventId ==
    [][(lastOp'.op = "OnMessage" /\ lastOp'.msg.status = "completed")
        => /\ processingStatus' = lastOp'.msg
           /\ \E t \in [kind : {"nav"}, document_id : {lastOp'.msg.document_id},
                        status : {"absent"}, progress : {0},
                        due : {n \in 0..10 : n * TickMs = 1000}] :
                  timers' = timers (+) SetToBag({t})
           /\ \A t \in BagToSet(timers') :
                  CopiesIn(t, timers') > CopiesIn(t, timers)
                  => t.document_id = processingStatus'.document_id]_vars

C3_Witness ==
    /\ variant = "real"
    /\ lastOp.op = "OnMessage"
    /\ lastOp.toast = "procOk"
    /\ processingStatus.status = "completed"
    /\ \E t \in BagToSet(timers) :
          /\ t.kind = "nav"
          /\ t.document_id = processingStatus.document_id
          /\ t.due = 2

\* C4: applying a failed event schedules no navigation and moves nowhere,
\* fires the failure notification and leaves the tracked status as the failed
\* event.
C4_FailedNeverNavigates ==
    [][(lastOp'.op = "OnMessage" /\ lastOp'.msg.status = "failed")
        => /\ timers' = timers
           /\ navScheduled' = navScheduled
           /\ location' = location
           /\ lastOp'.toast = "procFail"
           /\ processingStatus' = lastOp'.msg]_vars

C4_Witness ==
    /\ variant = "real"
    /\ lastOp.op = "OnMessage"
    /\ lastOp.toast = "procFail"
    /\ processingStatus.status = "failed"
    /\ timers = EmptyBag
    /\ location = 0

\* C5: right after a successful upload that returned identifier D, the tracked
\* status of the mounted view is {document_id: D, status: processing,
\* progress: 0}.
C5_SeededAfterUploadSuccess ==
    (lastOp.op = "UploadSuccess" /\ mounted)
    => processingStatus = [document_id |-> lastOp.num, status |-> "processing",
                           progress |-> 0]

\* C6: when an upload fails (real component), no status is seeded and no
\* identifier retained, the failure notification fires, the upload is no
\* longer marked active, and the selected file is unchanged so that the
\* upload can be started again with it.
C6_UploadFailureIsRetryable ==
    [][(lastOp'.op = "UploadFailure" /\ variant = "real" /\ mounted)
        => /\ processingStatus' = NullStatus
           /\ lastOp'.toast = "uploadFail"
           /\ isUploading' = FALSE
           /\ file' = file
           /\ file' # NoFile
           /\ minted' = minted
           /\ ~ButtonDisabledReal(file', isUploading', processingStatus')]_vars

C6_Witness ==
    /\ variant = "real"
    /\ mounted
    /\ lastOp.op = "UploadFailure"
    /\ file # NoFile
    /\ processingStatus = NullStatus
    /\ ~isUploading

C9_NoFileUploadIsNoOp ==
    [][(lastOp'.op = "HandleUpload" /\ file = NoFile)
        => /\ UNCHANGED << file, isUploading, uploadProgress, processingStatus,
                           inflight, minted, timers, navScheduled, ws,
                           lsStatus, location, mounted >>
           /\ lastOp'.toast = "none"]_vars

C9_Witness ==
    /\ lastOp = Op("HandleUpload", NullStatus, NoFile, "none")
    /\ file = NoFile
    /\ inflight = << >>
    /\ ~isUploading

\* C10: dropping a single PDF, in any state of the mounted view, makes it the
\* selected file, clears the tracked status and resets the upload progress.
C10_SelectFileReplacesAndClears ==
    [][(lastOp'.op = "OnDrop" /\ lastOp'.num # NoFile)
        => /\ file' = lastOp'.num
           /\ processingStatus' = NullStatus
           /\ uploadProgress' = 0]_vars

C10_Witness ==
    /\ lastOp.op = "OnDrop"
    /\ lastOp.num # NoFile
    /\ file = lastOp.num
    /\ processingStatus = NullStatus
    /\ uploadProgress = 0
    /\ minted >= 1

C12_MatchingEventReplacesStatus ==
    [][(/\ lastOp'.op = "OnMessage"
        /\ processingStatus # NullStatus
        /\ lastOp'.msg.document_id = processingStatus.document_id)
        => /\ lastOp'.msg \in ProcessingStatus
           /\ processingStatus' = lastOp'.msg]_vars

\* C13: terminal states are final: once the tracked status is completed or
\* failed, the tracked status for that identifier never changes again; it can
\* only be discarded (become absent) or give way to another identifier.
C13_TerminalStatusIsFinal ==
    [][(Terminal(processingStatus) /\ processingStatus' # processingStatus)
        => \/ processingStatus' = NullStatus
           \/ processingStatus'.document_id # processingStatus.document_id]_vars

\* C14: the status subscription stays active for the whole lifetime of the
\* view: while the view stays mounted, an open Status Channel connection is
\* never taken down by the client (a connection error is the network's doing
\* and is left aside).
C14_ListeningForViewLifetime ==
    [][(/\ variant = "real"
        /\ mounted /\ mounted'
        /\ ws = "open"
        /\ lastOp'.op # "OnError")
        => ws' = "open"]_vars

\* C15: whenever an inbound event is handled, the status its identifier is
\* compared against is the currently tracked status, never an older snapshot:
\* the value the listener holds and the tracked status name the same
\* identifier (or are both absent).
C15_ComparesAgainstCurrentStatus ==
    [][lastOp'.op = "OnMessage"
        => lsStatus.document_id = processingStatus.document_id]_vars

\* C16: while an upload is in flight in the mounted view, no processing status
\* is tracked: the status of the previous upload was discarded when the
\* transfer began.
C16_NoStatusWhileUploadInFlight ==
    (mounted /\ inflight # << >>) => processingStatus = NullStatus

\* C17 (as stated): once startUpload has begun a transfer, no file is selected
\* any more.
C17_FileClearedWhenUploadStarts ==
    [][(lastOp'.op = "HandleUpload" /\ inflight' # inflight)
        => file' = NoFile]_vars

\* C17 (amended): starting an upload does not clear the selected file: after
\* startUpload began a transfer, the selected file is still the file being
\* transferred.
C17_FileRetainedWhenUploadStarts ==
    [][(lastOp'.op = "HandleUpload" /\ file # NoFile)
        => /\ file' = file
           /\ inflight' = Append(inflight, file')]_vars

C17_Witness ==
    /\ variant = "real"
    /\ mounted
    /\ lastOp.op = "HandleUpload"
    /\ file # NoFile
    /\ file = lastOp.num
    /\ inflight = << file >>
    /\ isUploading

\* C18: end to end, for any identifier D: with a PDF selected and the upload
\* answered with D, the event {D, analyzing, 50} delivered to the view that
\* tracks the seeded status of D leaves it tracking analyzing/50, and the event
\* {D, completed, 100} delivered after that leaves it tracking completed/100
\* with exactly one pending navigation, addressed to D.
C18_EndToEndScenario ==
    [][\A d \in DocIds :
          LET analyzing == [document_id |-> d, status |-> "analyzing", progress |-> 50]
              completed == [document_id |-> d, status |-> "completed", progress |-> 100]
          IN  /\ (/\ OnMessage(analyzing)
                  /\ file # NoFile
                  /\ processingStatus = SeedStatus(d)
                  /\ timers = EmptyBag)
                 => processingStatus' = analyzing
              /\ (/\ OnMessage(completed)
                  /\ file # NoFile
                  /\ processingStatus = analyzing
                  /\ timers = EmptyBag)
                 => /\ processingStatus' = completed
                    /\ timers' = SetToBag({NavTimer(d)})]_vars

C20_UnmountClosesChannelKeepsUpload ==
    [][/\ (lastOp'.op = "Unmount" /\ variant = "real")
          => (ws' = "closed" /\ inflight' = inflight)
       /\ ~mounted
          => /\ lastOp'.op # "OnMessage"
             /\ UNCHANGED << processingStatus, file, uploadProgress, isUploading,
                             ws, lsStatus >>
             /\ inflight # << >> => ENABLED UploadFailure
       /\ inflight' # inflight
          => \/ lastOp'.op = "HandleUpload"
             \/ lastOp'.op \in {"UploadSuccess", "UploadFailure"}]_vars

C20_Witness ==
    /\ variant = "real"
    /\ ~mounted
    /\ ws = "closed"
    /\ lastOp.op = "UploadSuccess"
    /\ lastOp.num \in DocIds
    /\ inflight = << >>
    /\ processingStatus = NullStatus

\* C21: an applied event whose status is processing, analyzing or enhancing
\* only replaces the tracked status: it schedules no navigation, fires neither
\* the completion nor the failure notification, and leaves the selected file,
\* the upload progress, the upload-active flag and the location unchanged.
C21_ProgressEventOnlyUpdatesStatus ==
    [][(lastOp'.op = "OnMessage" /\ NonTerminal(lastOp'.msg))
        => /\ processingStatus' = lastOp'.msg
           /\ lastOp'.toast = "none"
           /\ UNCHANGED << timers, navScheduled, location, file, uploadProgress,
                           isUploading, inflight, mounted >>]_vars

C21_Witness ==
    /\ variant = "real"
    /\ lastOp.op = "OnMessage"
    /\ lastOp.msg.status = "enhancing"
    /\ lastOp.msg.progress = 100
    /\ processingStatus = lastOp.msg
    /\ timers = EmptyBag
    /\ file # NoFile

\* C22: upload progress is last-write-wins and bounded: after a progress event
\* with 0 <= loaded <= total and total > 0 the displayed percentage is the
\* integer nearest to loaded*100/total (halves rounded up), which lies in
\* 0..100, whatever was displayed before; in the real component an event
\* without a total leaves the displayed value unchanged.
C22_ProgressIsLastWriteWins ==
    [][\A total \in {0, MaxTotal} : \A loaded \in 0..MaxTotal :
          OnUploadProgress(loaded, total)
          => /\ (total > 0 /\ loaded <= total)
                => /\ uploadProgress' \in 0..100
                   /\ (2 * uploadProgress' - 1) * total <= 200 * loaded
                   /\ 200 * loaded < (2 * uploadProgress' + 1) * total
             /\ (total = 0 /\ variant = "real")
                => uploadProgress' = uploadProgress]_vars

C22_Witness ==
    /\ variant = "real"
    /\ lastOp.op = "OnUploadProgress"
    /\ lastOp.num = MaxTotal
    /\ uploadProgress \in 1..99
    /\ isUploading

\* C23: the two upload components implement the same flow: in every reachable
\* state both would show the upload button in the same enabled/disabled
\* state, and for a request in flight both would track the same status once
\* the upload succeeds with an identifier.
C23_MockAndRealAgree ==
    /\ ButtonDisabledReal(file, isUploading, processingStatus)
       <=> ButtonDisabledMock(file, isUploading, processingStatus)
    /\ (mounted /\ inflight # << >>)
       => \A d \in DocIds :
             StatusAfterUploadSuccess("real", processingStatus, d)
             = StatusAfterUploadSuccess("mock", processingStatus, d)

\* C24: the retry options never retry an error whose status is 4xx, and
\* otherwise retry exactly while fewer than 3 (queries) or 2 (mutations)
\* failures came before, so a request that keeps failing is given up after
\* finitely many attempts: no retry is granted from 3 failures on.
C24_RetryStopsOnClientErrorAndBound ==
    rq.retry # "undecided"
    => /\ (rq.status >= 400 /\ rq.status < 500) => rq.retry = "stop"
       /\ ~(rq.status >= 400 /\ rq.status < 500)
          => (rq.retry = "retry"
              <=> rq.failureCount < (IF rq.kind = "query" THEN 3 ELSE 2))
       /\ rq.failureCount >= 3 => rq.retry = "stop"

C24_Witness ==
    /\ rq.kind = "query"
    /\ rq.failureCount = 3
    /\ rq.status = 503
    /\ rq.retry = "stop"

\* C25: whenever a scheduled navigation fires, the upload view is still
\* mounted and still tracks the completed status of the navigation's target.
C25_NavigationFiresOnlyWhileCompleted ==
    [][lastOp'.op = "FireNavigate"
        => /\ mounted
           /\ processingStatus.status = "completed"
           /\ processingStatus.document_id = lastOp'.num]_vars

\* C26: a tracked status always belongs to the selected file: when an upload
\* succeeds and its identifier becomes the tracked one, the selected file is
\* the file that was uploaded.
C26_StatusBelongsToSelectedFile ==
    [][(/\ lastOp'.op = "UploadSuccess"
        /\ mounted'
        /\ processingStatus' # NullStatus
        /\ processingStatus'.document_id = lastOp'.num)
        => file' = Head(inflight)]_vars

\* C27: no status event for the uploaded document is lost around seeding: an
\* event delivered to the mounted view for the identifier of the upload it is
\* waiting for (the request is still in flight) or of the upload it tracks is
\* not dropped.
C27_NoEventLostAroundSeeding ==
    [][(/\ lastOp'.op = "OnMessage"
        /\ mounted
        /\ \/ inflight # << >> /\ lastOp'.msg.document_id = minted + 1
           \/ /\ processingStatus # NullStatus
              /\ lastOp'.msg.document_id = processingStatus.document_id)
        => lastOp'.msg.status # "ignored"]_vars

C29_AtMostOneOpenConnection ==
    /\ OpenConnections <= 1
    /\ ~mounted => OpenConnections = 0

C29_Witness ==
    /\ variant = "real"
    /\ mounted
    /\ lastOp.op = "WsOpen"
    /\ ws = "open"
    /\ OpenConnections = 1
    /\ lsStatus # NullStatus
    /\ nInputs >= 3

\* C30: in the mock component a simulated event of an earlier upload never
\* repopulates state that a new selection has cleared: when one of the later
\* timed events (analyzing/50, enhancing/90, completed/100) fires in the
\* mounted view while no status is tracked, the tracked status stays absent
\* and no navigation is scheduled.
C30_ClearedStateStaysCleared ==
    [][(/\ lastOp'.op = "HandleProcessingMessage"
        /\ mounted
        /\ processingStatus = NullStatus
        /\ lastOp'.msg.progress > 10)
        => /\ processingStatus' = NullStatus
           /\ navScheduled' = navScheduled
           /\ \A t \in BagToSet(timers') : t.kind = "nav"
                 => CopiesIn(t, timers') <= CopiesIn(t, timers)]_vars
====
